---- MODULE Spec2Model ----
(***************************************************************************)
(* A model of zeroconf.py: the publisher registry (register, unregister,   *)
(* the exit hook), the escape decoder (decode), the address resolver       *)
(* (get_address) and the two output parsers of search.                     *)
(*                                                                         *)
(* Text is a sequence of byte values; a Python value that may be None, an  *)
(* integer or a string is a record [t, i, s].                              *)
(***************************************************************************)
EXTENDS Integers, Sequences, FiniteSets, TLC

VARIABLES
    platform,     \* sys.platform, as far as the module tests it
    _publishers,  \* the dict _publishers: (name, type, port) -> handle
    procs,        \* every Popen made by register: its argument key, alive or killed
    phase,        \* "running", "exiting" (normal termination began), "exited"
    call,         \* the last call made: function and arguments
    raised,       \* the exception the last call raised, "" when it returned
    pre,          \* _publishers and procs as they were when the last call began
    text,         \* decode: the argument
    decoded,      \* decode: the outcome
    qout,         \* get_address: what the query subprocess wrote
    address,      \* get_address: the outcome
    bout,         \* search: what the browse subprocess wrote
    found         \* search: the outcome

vars == <<platform, _publishers, procs, phase, call, raised, pre,
          text, decoded, qout, address, bout, found>>

regvars == <<platform, _publishers, procs, phase, call, raised, pre>>
purevars == <<text, decoded, qout, address, bout, found>>

----------------------------------------------------------------------------
(* Python values *)

PyNone == [t |-> "none", i |-> 0, s |-> ""]
PyInt(n) == [t |-> "int", i |-> n, s |-> ""]
PyStr(x) == [t |-> "str", i |-> 0, s |-> x]

IsNone(v) == v.t = "none"

\* the truth value of v in `if v:`
Truthy(v) ==
    CASE v.t = "none" -> FALSE
      [] v.t = "int"  -> v.i # 0
      [] v.t = "str"  -> v.s # ""

DigitChar(d) ==
    CASE d = 0 -> "0" [] d = 1 -> "1" [] d = 2 -> "2" [] d = 3 -> "3"
      [] d = 4 -> "4" [] d = 5 -> "5" [] d = 6 -> "6" [] d = 7 -> "7"
      [] d = 8 -> "8" [] d = 9 -> "9"

RECURSIVE IntToStr(_)
IntToStr(n) ==
    IF n < 0 THEN "-" \o IntToStr(0 - n)
    ELSE IF n < 10 THEN DigitChar(n)
    ELSE IntToStr(n \div 10) \o DigitChar(n % 10)

\* str(v)
str(v) ==
    CASE v.t = "none" -> "None"
      [] v.t = "int"  -> IntToStr(v.i)
      [] v.t = "str"  -> v.s

\* s == v, s a string: a string equals no integer and not None
StrEq(s, v) == v.t = "str" /\ v.s = s

\* the outcome of a call: not made yet, returned value, or raised
Pending == [done |-> FALSE, raised |-> "", value |-> <<>>]
Returned(v) == [done |-> TRUE, raised |-> "", value |-> v]
Raised(e) == [done |-> TRUE, raised |-> e, value |-> <<>>]

----------------------------------------------------------------------------
(* Bounds and inputs *)

MaxSpawn == 2

Platforms == {"linux", "win"}
Names == {"svc-A", "svc-B"}
Types == {"_http._tcp", "_ipp._tcp"}
\* the (name, type) pairs the callers register
Services == {<<"svc-A", "_http._tcp">>, <<"svc-B", "_http._tcp">>, <<"svc-A", "_ipp._tcp">>}
PortValues == {PyInt(0), PyStr("0"), PyInt(80)}

NameArgs == {PyNone} \cup {PyStr(n) : n \in Names}
TypeArgs == {PyNone} \cup {PyStr(t) : t \in Types}
PortArgs == {PyNone} \cup PortValues

NoCall == [fn |-> "none", name |-> PyNone, type |-> PyNone, port |-> PyNone]

----------------------------------------------------------------------------
(* Service registration *)

Live(ps) == {h \in 1..Len(ps) : ps[h].alive}
Tracked(pubs) == {pubs[k] : k \in DOMAIN pubs}

\* subprocess.Popen(args): a new live process, its handle
Popen(ps, key) == Append(ps, [key |-> key, alive |-> TRUE])

\* publisher.kill() for every handle in hs
Kill(ps, hs) == [h \in 1..Len(ps) |-> IF h \in hs THEN [ps[h] EXCEPT !.alive = FALSE] ELSE ps[h]]

Store(pubs, key, h) == [k \in DOMAIN pubs \cup {key} |-> IF k = key THEN h ELSE pubs[k]]
Delete(pubs, keys) == [k \in DOMAIN pubs \ keys |-> pubs[k]]

\* register without the membership test
register_overwrite(name, type, port) ==
    LET key == <<name, type, str(port)>> IN
        /\ raised' = ""
        /\ procs' = Popen(procs, key)
        /\ _publishers' = Store(_publishers, key, Len(procs) + 1)

register(name, type, port) ==
    LET key == <<name, type, str(port)>> IN
        IF key \in DOMAIN _publishers
        THEN /\ raised' = "RuntimeError"
             /\ UNCHANGED <<_publishers, procs>>
        ELSE /\ raised' = ""
             /\ \/ /\ platform = "linux"
                   /\ procs' = Popen(procs, key)
                   /\ _publishers' = Store(_publishers, key, Len(procs) + 1)
                \/ /\ platform = "win"
                   /\ procs' = Popen(procs, key)
                   /\ _publishers' = Store(_publishers, key, Len(procs) + 1)

\* the test of lines 202-204 with the name ignored
match_any_name(key, name, type, port) ==
    /\ (IsNone(type) \/ StrEq(key[2], type))
    /\ (IsNone(port) \/ StrEq(key[3], port))

\* lines 202-204: key is (name_, type_, port_)
match(key, name, type, port) ==
    /\ (IsNone(name) \/ StrEq(key[1], name))
    /\ (IsNone(type) \/ StrEq(key[2], type))
    /\ (IsNone(port) \/ StrEq(key[3], port))

\* lines 198-205: the keys unregister collects
pids(pubs, name, type, port) ==
    LET port_ == IF Truthy(port) THEN PyStr(str(port)) ELSE port IN
        {key \in DOMAIN pubs : match(key, name, type, port_)}

\* unregister that stops after the first collected key
unregister_first(name, type, port) ==
    LET sel == pids(_publishers, name, type, port)
        one == IF sel = {} THEN {} ELSE {CHOOSE k \in sel : TRUE} IN
        /\ raised' = ""
        /\ procs' = Kill(procs, {_publishers[k] : k \in one})
        /\ _publishers' = Delete(_publishers, one)

\* unregister that fails when nothing matches
unregister_strict(name, type, port) ==
    LET sel == pids(_publishers, name, type, port) IN
        IF sel = {}
        THEN /\ raised' = "KeyError"
             /\ UNCHANGED <<_publishers, procs>>
        ELSE /\ raised' = ""
             /\ procs' = Kill(procs, {_publishers[k] : k \in sel})
             /\ _publishers' = Delete(_publishers, sel)

\* unregister that forgets the entries without killing their processes
unregister_nokill(name, type, port) ==
    LET sel == pids(_publishers, name, type, port) IN
        /\ raised' = ""
        /\ procs' = procs
        /\ _publishers' = Delete(_publishers, sel)

unregister(name, type, port) ==
    LET sel == pids(_publishers, name, type, port) IN
        /\ raised' = ""
        /\ procs' = Kill(procs, {_publishers[k] : k \in sel})
        /\ _publishers' = Delete(_publishers, sel)

\* an exit hook that was never installed
atexit_missing ==
    /\ raised' = ""
    /\ UNCHANGED <<_publishers, procs>>

\* atexit.register(unregister): the hook calls unregister()
atexit_hook == unregister(PyNone, PyNone, PyNone)

Snapshot == [publishers |-> _publishers, procs |-> procs]

CallRegister ==
    \E svc \in Services, port \in PortValues :
        /\ phase = "running"
        /\ (Len(procs) < MaxSpawn \/ <<svc[1], svc[2], str(port)>> \in DOMAIN _publishers)
        /\ register(svc[1], svc[2], port)
        /\ call' = [fn |-> "register", name |-> PyStr(svc[1]), type |-> PyStr(svc[2]), port |-> port]
        /\ pre' = Snapshot
        /\ UNCHANGED <<platform, phase>>
        /\ UNCHANGED purevars

CallUnregister ==
    \E name \in NameArgs, type \in TypeArgs, port \in PortArgs :
        /\ phase = "running"
        /\ unregister(name, type, port)
        /\ call' = [fn |-> "unregister", name |-> name, type |-> type, port |-> port]
        /\ pre' = Snapshot
        /\ UNCHANGED <<platform, phase>>
        /\ UNCHANGED purevars

\* normal termination of the interpreter begins
Terminate ==
    /\ phase = "running"
    /\ phase' = "exiting"
    /\ UNCHANGED <<platform, _publishers, procs, call, raised, pre>>
    /\ UNCHANGED purevars

\* the interpreter runs the registered exit function and ends
AtExit ==
    /\ phase = "exiting"
    /\ atexit_hook
    /\ call' = [fn |-> "atexit", name |-> PyNone, type |-> PyNone, port |-> PyNone]
    /\ pre' = Snapshot
    /\ phase' = "exited"
    /\ UNCHANGED platform
    /\ UNCHANGED purevars

PureIdle ==
    /\ text = <<>> /\ decoded = Pending
    /\ qout = <<>> /\ address = Pending
    /\ bout = <<>> /\ found = Pending

Init ==
    /\ platform \in Platforms
    /\ _publishers = <<>>
    /\ procs = <<>>
    /\ phase = "running"
    /\ call = NoCall
    /\ raised = ""
    /\ pre = [publishers |-> <<>>, procs |-> <<>>]
    /\ PureIdle

Next == CallRegister \/ CallUnregister \/ Terminate \/ AtExit

Spec == Init /\ [][Next]_vars

FairSpec == Init /\ [][Next]_vars /\ WF_vars(AtExit)

----------------------------------------------------------------------------
(* The registry claims *)

CallKey == <<call.name.s, call.type.s, str(call.port)>>
AllOmitted == IsNone(call.name) /\ IsNone(call.type) /\ IsNone(call.port)
Dead(h) == ~procs[h].alive

\* C1: register(name, type, port) made while (name, type, str(port)) is tracked
\* raises the duplicate-registration error, spawns nothing and leaves the
\* registry as it was; the port is compared as a string, so 0 and "0" collide.
C1_DuplicateRegisterRaises ==
    (call.fn = "register" /\ CallKey \in DOMAIN pre.publishers) =>
        /\ raised = "RuntimeError"
        /\ _publishers = pre.publishers
        /\ procs = pre.procs

C1_Witness ==
    /\ call.fn = "register"
    /\ call.port.t = "int"
    /\ CallKey \in DOMAIN pre.publishers
    /\ raised = "RuntimeError"
    /\ \E h \in 1..Len(procs) : Dead(h)

\* C2: unregister() with no arguments kills the subprocess of every tracked
\* publisher and leaves the registry empty.
C2_UnregisterAllEmpties ==
    (call.fn = "unregister" /\ AllOmitted) =>
        /\ DOMAIN _publishers = {}
        /\ \A k \in DOMAIN pre.publishers : Dead(pre.publishers[k])

C2_Witness ==
    /\ call.fn = "unregister"
    /\ AllOmitted
    /\ Cardinality(DOMAIN pre.publishers) >= 2
    /\ DOMAIN _publishers = {}

\* C3: unregister(name=X) removes the entries named X and no other: an entry
\* with another name keeps its place, its handle and its running subprocess.
C3_UnregisterByNameFrame ==
    (call.fn = "unregister" /\ ~IsNone(call.name) /\ IsNone(call.type) /\ IsNone(call.port)) =>
        /\ DOMAIN _publishers \subseteq DOMAIN pre.publishers
        /\ \A k \in DOMAIN pre.publishers :
              IF k[1] = call.name.s
              THEN k \notin DOMAIN _publishers /\ Dead(pre.publishers[k])
              ELSE /\ k \in DOMAIN _publishers
                   /\ _publishers[k] = pre.publishers[k]
                   /\ procs[_publishers[k]].alive

C3_Witness ==
    /\ call.fn = "unregister"
    /\ ~IsNone(call.name) /\ IsNone(call.type) /\ IsNone(call.port)
    /\ \E k \in DOMAIN pre.publishers : k[1] = call.name.s
    /\ \E k \in DOMAIN pre.publishers : k[1] # call.name.s

\* the selection the contract describes: every provided field matches, the
\* port in the string form register stored
Selected(key, name, type, port) ==
    /\ (IsNone(name) \/ key[1] = str(name))
    /\ (IsNone(type) \/ key[2] = str(type))
    /\ (IsNone(port) \/ key[3] = str(port))

\* C4: unregister(name?, type?, port?) removes exactly the entries whose key
\* matches every provided field, omitted fields being wildcards, for every
\* provided port, integer or string, the integer 0 included.
C4_SelectsAllProvidedFields ==
    call.fn = "unregister" =>
        DOMAIN _publishers =
            {k \in DOMAIN pre.publishers : ~Selected(k, call.name, call.type, call.port)}

\* C5: unregister with a selector that matches no tracked entry raises nothing
\* and changes nothing; after any unregister its selector matches nothing, and
\* the same call made again changes neither the registry nor any subprocess.
C5_UnregisterIdempotent ==
    /\ [](call.fn = "unregister" =>
            /\ raised = ""
            /\ pids(_publishers, call.name, call.type, call.port) = {}
            /\ (pids(pre.publishers, call.name, call.type, call.port) = {} =>
                    _publishers = pre.publishers /\ procs = pre.procs))
    /\ [][(call.fn = "unregister" /\ call' = call) =>
            (_publishers' = _publishers /\ procs' = procs /\ raised' = "")]_vars

C5_Witness ==
    /\ call.fn = "unregister"
    /\ ~AllOmitted
    /\ pids(pre.publishers, call.name, call.type, call.port) = {}
    /\ DOMAIN pre.publishers # {}
    /\ \E h \in 1..Len(procs) :
          Dead(h) /\ match(procs[h].key, call.name, call.type, call.port)

\* C6: once normal termination has begun the exit hook runs unregister over the
\* whole registry: the process ends with every publisher it spawned killed.
C6_ExitKillsEveryPublisher ==
    /\ (phase = "exiting") ~> (phase = "exited" /\ Live(procs) = {})
    /\ [](phase = "exited" => (Live(procs) = {} /\ DOMAIN _publishers = {}))

C6_Witness ==
    /\ phase = "exited"
    /\ call.fn = "atexit"
    /\ DOMAIN pre.publishers # {}
    /\ \E h \in 1..Len(pre.procs) : ~pre.procs[h].alive
    /\ Live(procs) = {}

\* C10: the registry holds at most one handle per (name, type, port), and the
\* publishers spawned and not yet killed are exactly the handles it holds.
C10_RegistryOwnsLivePublishers ==
    /\ \A h1, h2 \in Live(procs) : procs[h1].key = procs[h2].key => h1 = h2
    /\ Tracked(_publishers) = Live(procs)
    /\ \A k \in DOMAIN _publishers : procs[_publishers[k]].key = k

C10_Witness ==
    /\ raised = "RuntimeError"
    /\ Cardinality(DOMAIN _publishers) >= 1
    /\ \E h \in 1..Len(procs) : Dead(h)

----------------------------------------------------------------------------
(* Text: byte values *)

LF == 10
CR == 13
SPACE == 32
QUOTE == 34
DOT == 46
SEMICOLON == 59
BACKSLASH == 92

Whitespace == {9, LF, 11, 12, CR, SPACE}
SeqsUpTo(A, n) == UNION {[1..m -> A] : m \in 0..n}
IsDigit(c) == c \in 48..57


\* the k-th smallest element of the set of positions P
Nth(P, k) == CHOOSE i \in P : Cardinality({j \in P : j < i}) = k - 1

\* t.splitlines(): breaks at \n, \r and \r\n, no empty last line
splitlines(t) ==
    LET B == {i \in 1..Len(t) : t[i] = CR \/ (t[i] = LF /\ (i = 1 \/ t[i - 1] # CR))}
        after(i) == IF t[i] = CR /\ i + 1 <= Len(t) /\ t[i + 1] = LF THEN i + 2 ELSE i + 1
        n == Cardinality(B)
        start(k) == IF k = 1 THEN 1 ELSE after(Nth(B, k - 1))
        broken == [k \in 1..n |-> SubSeq(t, start(k), Nth(B, k) - 1)]
    IN  IF start(n + 1) <= Len(t)
        THEN Append(broken, SubSeq(t, start(n + 1), Len(t)))
        ELSE broken

\* t.split(): the runs of non-whitespace
split(t) ==
    LET S == {i \in 1..Len(t) : t[i] \notin Whitespace /\ (i = 1 \/ t[i - 1] \in Whitespace)}
        runEnd(i) == CHOOSE j \in i..Len(t) :
                         /\ \A m \in i..j : t[m] \notin Whitespace
                         /\ (j = Len(t) \/ t[j + 1] \in Whitespace)
    IN  [k \in 1..Cardinality(S) |-> SubSeq(t, Nth(S, k), runEnd(Nth(S, k)))]

\* t.split(sep), sep one byte: always at least one field
splitSep(t, sep) ==
    LET P == {i \in 1..Len(t) : t[i] = sep}
        n == Cardinality(P)
    IN  [k \in 1..(n + 1) |->
            SubSeq(t, IF k = 1 THEN 1 ELSE Nth(P, k - 1) + 1,
                      IF k = n + 1 THEN Len(t) ELSE Nth(P, k) - 1)]

----------------------------------------------------------------------------
(* decode *)

\* re.sub(r"(\\\d\d\d)|(\\.)", replace, text) from position i, each
\* replacement as the number chr is given; `.` matches any byte but \n
RECURSIVE sub(_, _)
sub(t, i) ==
    IF i > Len(t) THEN <<>>
    ELSE IF /\ t[i] = BACKSLASH
            /\ i + 3 <= Len(t)
            /\ IsDigit(t[i + 1]) /\ IsDigit(t[i + 2]) /\ IsDigit(t[i + 3])
         THEN <<100 * (t[i + 1] - 48) + 10 * (t[i + 2] - 48) + (t[i + 3] - 48)>>
                  \o sub(t, i + 4)
    ELSE IF t[i] = BACKSLASH /\ i + 1 <= Len(t) /\ t[i + 1] # LF
         THEN <<t[i + 1]>> \o sub(t, i + 2)
    ELSE <<t[i]>> \o sub(t, i + 1)

decode(t) ==
    IF \E i \in 1..Len(t) : t[i] > 127 THEN Raised("UnicodeError")
    ELSE LET out == sub(t, 1) IN
         IF \E i \in 1..Len(out) : out[i] > 255 THEN Raised("ValueError")
         ELSE Returned(out)

----------------------------------------------------------------------------
(* get_address *)

\* lines 115-120, out what process.stdout.read() returned
get_address(out) ==
    LET results == [n \in 1..Len(splitlines(out)) |-> split(splitlines(out)[n])] IN
        IF Len(results) >= 1
        THEN IF Len(results) < 2 THEN Raised("IndexError")
             ELSE IF Len(results[2]) = 0 THEN Raised("IndexError")
             ELSE Returned(results[2][Len(results[2])])
        ELSE Returned(<<>>)

----------------------------------------------------------------------------
(* search *)

EQUALS == <<61>>                      \* "="
PLUS == <<43>>                        \* "+"
IPv4 == <<73, 80, 118, 52>>           \* "IPv4"
IPv6 == <<73, 80, 118, 54>>           \* "IPv6"
SRV == <<83, 82, 86>>                 \* "SRV"
TXT == <<84, 88, 84>>                 \* "TXT"
Local == <<108, 111, 99, 97, 108>>    \* "local", the default domain

NoInfo == <<>>
Put(info, key, data) ==
    [k \in DOMAIN info \cup {key} |-> IF k = key THEN data ELSE info[k]]
Data(hostname, addr, port, txt) ==
    [hostname |-> hostname, address |-> addr, port |-> port, txt |-> txt]

\* lines 63-72 from the n-th result on
RECURSIVE browseLinux(_, _, _)
browseLinux(results, n, info) ==
    IF n > Len(results) THEN Returned(info)
    ELSE LET result == results[n] IN
         IF result[1] = EQUALS
         THEN IF Len(result) # 10 THEN Raised("ValueError")
              ELSE LET name_ == decode(result[4]) IN
                   IF name_.raised # "" THEN name_
                   ELSE IF result[3] = IPv4
                        THEN browseLinux(results, n + 1,
                                 Put(info, <<name_.value, result[5], result[6]>>,
                                     Data(result[7], result[8], result[9], result[10])))
                        ELSE browseLinux(results, n + 1, info)
         ELSE browseLinux(results, n + 1, info)

\* t[(t.find(".") + 1):]
AfterFirstDot(t) ==
    IF \E i \in 1..Len(t) : t[i] = DOT
    THEN LET i == CHOOSE j \in 1..Len(t) : t[j] = DOT /\ \A k \in 1..(j - 1) : t[k] # DOT
         IN SubSeq(t, i + 1, Len(t))
    ELSE t

\* str.replace(t, '"', '')
Unquote(t) == SelectSeq(t, LAMBDA c : c # QUOTE)

\* line 90: the locals before the loop; type_ is not assigned yet
NoService ==
    [name |-> <<>>, port |-> <<>>, hostname |-> <<>>, address |-> <<>>,
     type |-> <<>>, typeBound |-> FALSE]

\* lines 92-105 from the n-th result on; qo is what each query subprocess wrote
RECURSIVE browseWin(_, _, _, _, _, _)
browseWin(results, n, cur, info, domain, qo) ==
    IF n > Len(results) THEN Returned(info)
    ELSE LET result == results[n] IN
         IF Len(result) = 14 /\ result[2] = SRV
         THEN LET d == decode(result[1])
                  a == get_address(qo) IN
              IF d.raised # "" THEN d
              ELSE IF a.raised # "" THEN a
              ELSE browseWin(results, n + 1,
                       [name |-> splitSep(d.value, DOT)[1], port |-> result[5],
                        hostname |-> result[6], address |-> a.value,
                        type |-> AfterFirstDot(d.value), typeBound |-> TRUE],
                       info, domain, qo)
         ELSE IF Len(result) = 3 /\ result[2] = TXT
         THEN IF ~cur.typeBound THEN Raised("UnboundLocalError")
              ELSE browseWin(results, n + 1, cur,
                       Put(info, <<cur.name, cur.type, domain>>,
                           Data(cur.hostname, cur.address, cur.port, Unquote(result[3]))),
                       domain, qo)
         ELSE browseWin(results, n + 1, cur, info, domain, qo)

\* search(name, type, domain) on platform plat, out what the browse subprocess
\* wrote; name is <<>> for None and <<n>> for the name n
search(plat, name, domain, out, qo) ==
    LET lines == splitlines(out)
        r == IF plat = "linux"
             THEN browseLinux([n \in 1..Len(lines) |-> splitSep(lines[n], SEMICOLON)], 1, NoInfo)
             ELSE browseWin([n \in 1..Len(lines) |-> split(lines[n])], 1, NoService,
                            NoInfo, domain, qo)
    IN  IF r.raised # "" THEN r
        ELSE Returned([k \in {x \in DOMAIN r.value : name = <<>> \/ x[1] = name[1]}
                          |-> r.value[k]])

MaxLines == 2

RECURSIVE Join(_, _)
Join(fields, sep) ==
    IF Len(fields) = 0 THEN <<>>
    ELSE IF Len(fields) = 1 THEN fields[1]
    ELSE fields[1] \o sep \o Join(Tail(fields), sep)

RECURSIVE Lines(_)
Lines(ls) == IF Len(ls) = 0 THEN <<>> ELSE ls[1] \o <<LF>> \o Lines(Tail(ls))

NameA == <<97>>                              \* a
NameB == <<98, 92, 48, 51, 50, 99>>          \* b\032c, the escaped form of "b c"
NameBDecoded == <<98, 32, 99>>               \* b c
TypeHttp == <<95, 104, 116, 116, 112>>       \* _http
Host == <<104>>
Addr == <<52>>
Port == <<56, 48>>
Txt == <<120>>
Iface == <<101>>

\* what avahi-browse --parsable may write, one line each
LinuxLines ==
    {Join(<<EQUALS, Iface, v, n, TypeHttp, Local, Host, Addr, Port, Txt>>, <<SEMICOLON>>) :
         v \in {IPv4, IPv6}, n \in {NameA, NameB}}
    \cup {Join(<<PLUS, Iface, IPv4, NameA, TypeHttp, Local>>, <<SEMICOLON>>),
          Join(<<EQUALS, Iface, IPv4, NameA, TypeHttp, Local, Host, Addr, Port>>, <<SEMICOLON>>),
          Join(<<EQUALS, Iface, IPv4, NameA, TypeHttp, Local, Host, Addr, Port, Txt, Txt>>,
               <<SEMICOLON>>),
          <<>>}

\* the tail of an SRV line of dns-sd -Z: "; Replace with unicast FQDN of target host"
SrvTail == <<<<59>>, <<82>>, <<119>>, <<117>>, <<70>>, <<111>>, <<116>>, <<104>>>>

\* what dns-sd -Z may write, one line each
WinLines ==
    {Join(<<n \o <<DOT>> \o TypeHttp, SRV, <<48>>, <<48>>, Port, Host>> \o SrvTail, <<SPACE>>) :
         n \in {NameA, NameB}}
    \cup {Join(<<NameA \o <<DOT>> \o TypeHttp, TXT, <<QUOTE>> \o Txt \o <<QUOTE>>>>, <<SPACE>>),
          Join(<<NameA \o <<DOT>> \o TypeHttp, SRV, <<48>>, <<48>>, Port, Host>>
                   \o Tail(SrvTail), <<SPACE>>),
          Join(<<NameA \o <<DOT>> \o TypeHttp, TXT, <<QUOTE>>, Txt \o <<QUOTE>>>>, <<SPACE>>),
          <<>>}

\* what dns-sd -Q wrote when it was killed: nothing, a header only, a header and an answer
QueryOutputs ==
    {<<>>,
     <<97, LF>>,
     <<97, LF, 97, SPACE, 49, LF>>}

SearchNames == {<<>>, <<NameA>>, <<NameBDecoded>>}

CallSearch ==
    \E name \in SearchNames :
        /\ ~found.done
        /\ found' = search(platform, name, Local, bout, qout)
        /\ call' = [fn |-> "search", name |-> name, type |-> PyNone, port |-> PyNone]
        /\ UNCHANGED <<platform, _publishers, procs, phase, raised, pre>>
        /\ UNCHANGED <<text, decoded, qout, address, bout>>

InitSearch ==
    /\ platform \in Platforms
    /\ _publishers = <<>>
    /\ procs = <<>>
    /\ phase = "running"
    /\ call = NoCall
    /\ raised = ""
    /\ pre = [publishers |-> <<>>, procs |-> <<>>]
    /\ bout \in {Lines(ls) :
                    ls \in SeqsUpTo(IF platform = "linux" THEN LinuxLines ELSE WinLines, MaxLines)}
    /\ qout \in (IF platform = "linux" THEN {<<>>} ELSE QueryOutputs)
    /\ found = Pending
    /\ text = <<>> /\ decoded = Pending
    /\ address = Pending

SearchSpec == InitSearch /\ [][CallSearch]_vars

\* a line that fits what the parser of the platform expects: the marker with
\* its field count
Fits(plat, line) ==
    IF plat = "linux"
    THEN LET f == splitSep(line, SEMICOLON) IN f[1] = EQUALS /\ Len(f) = 10
    ELSE LET f == split(line) IN
         \/ Len(f) = 14 /\ f[2] = SRV
         \/ Len(f) = 3 /\ f[2] = TXT

FittingOnly(plat, out) == Lines(SelectSeq(splitlines(out), LAMBDA l : Fits(plat, l)))

\* C8: a line that does not fit the expected field count or marker is
\* dropped: search does not fail and returns the mapping the fitting lines
\* give. (The calls the address resolver fails are the subject of C9.)
C8_MisfitLinesDropped ==
    (found.done /\ found.raised # "IndexError") =>
        /\ found.raised = ""
        /\ found.value = search(platform, call.name, Local, FittingOnly(platform, bout), qout).value

----------------------------------------------------------------------------
(* The decoder and the resolver on their own *)

MaxText == 8
MaxOut == 5

\* backslash, the digits 2 and 9, a dot, a newline
TextAlphabet == {BACKSLASH, 50, 57, DOT, LF}
\* a, 1, space and the two line breaks
OutAlphabet == {97, 49, SPACE, LF, CR}

RegistryIdle ==
    /\ platform = "linux"
    /\ _publishers = <<>>
    /\ procs = <<>>
    /\ phase = "running"
    /\ call = NoCall
    /\ raised = ""
    /\ pre = [publishers |-> <<>>, procs |-> <<>>]

CallDecode ==
    /\ ~decoded.done
    /\ decoded' = decode(text)
    /\ UNCHANGED <<text, qout, address, bout, found>>
    /\ UNCHANGED regvars

InitDecode ==
    /\ RegistryIdle
    /\ text \in SeqsUpTo(TextAlphabet, MaxText)
    /\ decoded = Pending
    /\ qout = <<>> /\ address = Pending
    /\ bout = <<>> /\ found = Pending

DecodeSpec == InitDecode /\ [][CallDecode]_vars

CallGetAddress ==
    /\ ~address.done
    /\ address' = get_address(qout)
    /\ UNCHANGED <<text, decoded, qout, bout, found>>
    /\ UNCHANGED regvars

InitAddress ==
    /\ RegistryIdle
    /\ qout \in SeqsUpTo(OutAlphabet, MaxOut)
    /\ address = Pending
    /\ text = <<>> /\ decoded = Pending
    /\ bout = <<>> /\ found = Pending

AddressSpec == InitAddress /\ [][CallGetAddress]_vars

\* the grammar as the contract words it: backslash and three digits is the
\* byte of that number, backslash and any other byte is that byte, every
\* other byte is itself
RECURSIVE Unescape(_, _)
Unescape(t, i) ==
    IF i > Len(t) THEN <<>>
    ELSE IF /\ t[i] = BACKSLASH
            /\ i + 3 <= Len(t)
            /\ IsDigit(t[i + 1]) /\ IsDigit(t[i + 2]) /\ IsDigit(t[i + 3])
         THEN <<100 * (t[i + 1] - 48) + 10 * (t[i + 2] - 48) + (t[i + 3] - 48)>>
                  \o Unescape(t, i + 4)
    ELSE IF t[i] = BACKSLASH /\ i + 1 <= Len(t)
         THEN <<t[i + 1]>> \o Unescape(t, i + 2)
    ELSE <<t[i]>> \o Unescape(t, i + 1)

\* C7: for every 7-bit text whose three-digit escapes name bytes (0-255),
\* decode returns the text with each three-digit escape replaced by its byte,
\* each other backslash pair by the pair's second byte, the rest unchanged.
C7_DecodeFollowsGrammar ==
    (decoded.done /\ \A i \in 1..Len(Unescape(text, 1)) : Unescape(text, 1)[i] <= 255) =>
        /\ decoded.raised = ""
        /\ decoded.value = Unescape(text, 1)

\* C9: get_address returns the last token of the second output line when
\* there is one, and the empty string otherwise; it never raises.
C9_ResolverNeverRaises ==
    address.done =>
        /\ address.raised = ""
        /\ LET lines == splitlines(qout) IN
              address.value =
                  IF Len(lines) >= 2 /\ Len(split(lines[2])) >= 1
                  THEN split(lines[2])[Len(split(lines[2]))]
                  ELSE <<>>

====
